---------------------------- MODULE Spec2Model ----------------------------
(***************************************************************************)
(* The worker pool, dispatcher and consumers of rabbitmq-cli-consumer.     *)
(*                                                                         *)
(* Goroutines are processes with a program counter; an unbuffered channel  *)
(* operation is a rendezvous (one action moving sender and receiver), a    *)
(* buffered channel is a bounded sequence.                                 *)
(***************************************************************************)
EXTENDS Naturals, Sequences, FiniteSets

\* Largest worker count (cfg.Workers.Count) the model draws.
MaxWorkers == 2
\* Largest job queue length (cfg.Workers.Queue) the model draws.
MaxQueueLen == 1
\* Number of jobs submitted / deliveries sent by the broker.
MaxJobs == 3
\* Number of times the owner of the pool calls Release.
MaxRelease == 2

VARIABLES
    proc,         \* "running", "exited" (os.Exit) or "crashed" (unrecovered panic)
    numWorkers,   \* cap(workerPool): NewPool's numWorkers
    jobQueueLen,  \* cap(JobQueue): NewPool's jobQueueLen
    kind,         \* per job: "none" until it exists, then "http" (*HTTPJob) or "nil"
    jst,          \* per job: "none", "adding" (inside AddJob), "accepted" (AddJob returned)
    jobQueue,     \* Pool.JobQueue, the buffered channel's content
    workerPool,   \* dispatcher.workerPool, the idle-worker registry's content
    wpc,          \* per worker: position in worker.start's goroutine
    wjob,         \* per worker: the job variable of worker.start
    dpc,          \* position of dispatcher.dispatch
    djob,         \* dispatch's job variable
    dworker,      \* dispatch's worker variable
    di,           \* dispatch's loop counter i of the stop branch
    started,      \* per job: number of Do calls started
    finished,     \* per job: number of Do calls returned
    stopsRecv,    \* per worker: stop signals received
    stopAcks,     \* per worker: stop acknowledgments sent
    rpc,          \* position of the caller of Pool.Release
    relCalls,     \* calls of Release made
    relReturned,  \* calls of Release returned
    infLog,       \* number of entries written to the info sink
    errLog,       \* number of entries written to the error sink
    conn,         \* the broker connection: "open" or "closed" (close notified)
    cpc,          \* position of Consumer.Consume ("none": no consumer runs)
    taken,        \* number of deliveries taken from the delivery stream msgs
    payload,      \* per delivery: "none" until taken, then "good" or "bad"
    hpc,          \* per delivery: position of its handleMsg goroutine
    acks,         \* per delivery: acknowledgments issued for its own tag
    brokerAcked,  \* the deliveries the broker holds as acknowledged
    wg,           \* the sync.WaitGroup counter of outstanding work
    httpMessagePool, \* the scratch messages held by the sync.Pool
    bpc,          \* per caller of BuildJob: position in the call
    bdata,        \* per caller: the data argument of its call
    bgot,         \* per caller: the scratch message as Get returned it
    bmsg,         \* per caller: the scratch message msg of its call
    bres,         \* per caller: what its call returned
    heap,         \* the byte arrays behind the Body slices: array |-> bytes
    dopc,         \* per direct call of HTTPJob.Do: position in the call
    doworker,     \* per call: the worker argument
    dotrip,       \* per call: what hj.client.Do(hj.req) gave
    doentry       \* per call: the log entry the call wrote

poolVars == <<numWorkers, jobQueueLen, jobQueue, workerPool, wpc, wjob,
              dpc, djob, dworker, di, stopsRecv, stopAcks>>
jobVars == <<kind, jst, started, finished, infLog, errLog>>
relVars == <<rpc, relCalls, relReturned>>
consVars == <<conn, cpc, taken, payload, hpc, acks, brokerAcked, wg>>
buildVars == <<httpMessagePool, bpc, bdata, bgot, bmsg, bres, heap>>
doVars == <<dopc, doworker, dotrip, doentry>>
vars == <<proc, poolVars, jobVars, relVars, consVars, buildVars, doVars>>

Jobs == 1..MaxJobs
\* The job and worker variables of a goroutine before their first assignment.
NoJob == MaxJobs + 1
NoWorker == MaxWorkers + 1

\* Variant: the creation loop runs once too often (i <= cap).
WorkersOffByOne == 0..numWorkers

\* The workers newDispatcher creates: one per slot of the registry, index 0..cap-1.
Workers == 0..(numWorkers - 1)

\* What hj.client.Do(hj.req) can give: a response, here with status 200 or
\* 500, or a transport error.
RoundTrips == {"200", "500", "err"}

\* Variant: a response whose status is not 200 is logged as an error.
DoStatusIsError(k, rt) == IF k = "nil" THEN "panic"
                          ELSE IF rt # "200" THEN "error" ELSE "info"

\* job.Do(...) as the worker calls it: a method call on the nil interface
\* value panics; HTTPJob.Do writes one entry, to the error sink on a transport
\* error and to the info sink otherwise, and returns.
Do(k, rt) == IF k = "nil" THEN "panic"
             ELSE IF rt = "err" THEN "error" ELSE "info"

\* The jobs whose Do has started and not yet returned.
Executing == {j \in Jobs : started[j] > finished[j]}

----------------------------------------------------------------------------
\* handler/http.go: the message payload, httpMessage and the request built

\* The goroutines that call BuildJob.
Callers == {"caller1", "caller2"}

\* The JSON fields of request_params.
Fields == {"method", "uri", "headers", "body"}

\* Method strings: empty, a token, and one with a space.
Methods == {"", "GET", "G T"}

\* URI strings: empty, a URL, and one that has no scheme before its colon.
URIs == {"", "http://x", ":x"}

\* Header keys as sequences of characters.
HeaderKeys == {<<"x", "-", "a">>, <<"X", "-", "A">>}

\* JSON values of a header: a string, a number with its literal text, a bool.
HeaderValues == {[t |-> "string", lit |-> "1"],
                 [t |-> "number", lit |-> "1.0"],
                 [t |-> "bool", lit |-> "true"]}

\* JSON objects over the header keys (a Go map[string]interface{}).
HeaderObjects == UNION {[K -> HeaderValues] : K \in SUBSET HeaderKeys}

\* The object without entries.
NoHeaders == CHOOSE h \in HeaderObjects : DOMAIN h = {}

\* A payload: what the bytes start with ("junk": no complete JSON value,
\* "scalar": a JSON string, number, bool or array, "null", or "object": an
\* object whose request_params has the fields in present), and whether
\* non-space bytes follow that first value.
Data ==
    {d \in [syntax : {"junk", "scalar", "null", "object"}, more : BOOLEAN,
            present : SUBSET Fields, method : Methods, uri : URIs,
            headers : HeaderObjects, body : {"", "b", "c"}] :
        /\ d.syntax = "junk" => ~d.more
        /\ d.syntax # "object" => d.present = {}
        /\ "method" \notin d.present => d.method = ""
        /\ "uri" \notin d.present => d.uri = ""
        /\ "headers" \notin d.present => d.headers = NoHeaders
        /\ "body" \in d.present <=> d.body # ""}

\* The empty payload.
EmptyData == [syntax |-> "junk", more |-> FALSE, present |-> {}, method |-> "",
              uri |-> "", headers |-> NoHeaders, body |-> ""]

\* The byte arrays a Body slice can point into, and the pointer of a nil
\* slice.  A slice is its array; the bodies have one length.
Arrays == {"a1", "a2", "a3"}
NoArray == "nil"

\* The nil json.RawMessage.
NilBody == [isNil |-> TRUE, arr |-> NoArray]

\* &httpMessage{}: what httpMessagePool.New returns.
ZeroMessage == [URI |-> "", Headers |-> [isNil |-> TRUE, m |-> NoHeaders],
                Body |-> NilBody, Method |-> ""]

\* Variant: a reset that leaves the headers map in place.
resetKeepsHeaders(msg) ==
    [msg EXCEPT !.URI = "",
                !.Body = NilBody,
                !.Method = ""]

\* Variant: a reset that empties the body but keeps its array (Body[:0]).
resetKeepsBodyArray(msg) ==
    [msg EXCEPT !.URI = "",
                !.Headers = [isNil |-> TRUE, m |-> NoHeaders],
                !.Method = ""]

\* httpMessage.reset
reset(msg) ==
    [msg EXCEPT !.URI = "",
                !.Headers = [isNil |-> TRUE, m |-> NoHeaders],
                !.Body = NilBody,
                !.Method = ""]

\* Decoding a JSON object into a Go map: the map is allocated when nil and
\* the object's entries are stored into it, entries already there staying.
DecodeMap(old, new) ==
    [k \in DOMAIN old \cup DOMAIN new |-> IF k \in DOMAIN new THEN new[k] ELSE old[k]]

\* json.Decoder.Decode(msg) with UseNumber: it reads the first JSON value of
\* the input and nothing behind it; a missing or broken value and a value that
\* is no object are errors, null changes nothing, and an object assigns the
\* fields it has, leaving the others as they are.  The body is stored by
\* json.RawMessage.UnmarshalJSON, append((*m)[0:0], data...): into the array
\* the slice has, or into a new array (fresh) when the slice is nil.  mem is
\* the memory before; the result has the memory after.
Decode(msg, data, mem, fresh) ==
    IF data.syntax \in {"junk", "scalar"}
       THEN [err |-> TRUE, msg |-> msg, mem |-> mem]
       ELSE [err |-> FALSE,
             mem |-> IF "body" \in data.present
                        THEN [mem EXCEPT ![IF msg.Body.isNil THEN fresh
                                           ELSE msg.Body.arr] = data.body]
                        ELSE mem,
             msg |-> [URI |-> IF "uri" \in data.present THEN data.uri ELSE msg.URI,
                      Headers |-> IF "headers" \in data.present
                                     THEN [isNil |-> FALSE,
                                           m |-> DecodeMap(msg.Headers.m, data.headers)]
                                     ELSE msg.Headers,
                      Body |-> IF "body" \in data.present
                                  THEN [isNil |-> FALSE,
                                        arr |-> IF msg.Body.isNil THEN fresh
                                                ELSE msg.Body.arr]
                                  ELSE msg.Body,
                      Method |-> IF "method" \in data.present
                                    THEN data.method ELSE msg.Method]]

\* httpMessage.parse: the error ("" for nil) and the message as it leaves it.
parse(msg, data, mem, fresh) ==
    LET r == Decode(msg, data, mem, fresh)
    IN  IF r.err THEN [err |-> "decode", msg |-> r.msg, mem |-> r.mem]
        ELSE IF r.msg.Method = ""
                THEN [err |-> "empty http method", msg |-> r.msg, mem |-> r.mem]
        ELSE IF r.msg.URI = ""
                THEN [err |-> "empty http uri", msg |-> r.msg, mem |-> r.mem]
        ELSE [err |-> "", msg |-> r.msg, mem |-> r.mem]

\* textproto.CanonicalMIMEHeaderKey on the letters the keys use.
Upper(c) == IF c = "x" THEN "X" ELSE IF c = "a" THEN "A" ELSE c
Lower(c) == IF c = "X" THEN "x" ELSE IF c = "A" THEN "a" ELSE c
CanonicalMIMEHeaderKey(k) ==
    [i \in 1..Len(k) |-> IF i = 1 \/ k[i - 1] = "-" THEN Upper(k[i]) ELSE Lower(k[i])]

\* make(http.Header)
EmptyHeader == [ck \in {} |-> <<>>]

\* http.Header.Set: the values under the canonical key become the one value.
Set(h, k, v) ==
    [ck \in DOMAIN h \cup {CanonicalMIMEHeaderKey(k)} |->
        IF ck = CanonicalMIMEHeaderKey(k) THEN <<v>> ELSE h[ck]]

\* json.Number.String: the number's literal text.
String(n) == n.lit

\* The orders in which for k, v := range m can visit the keys of a map.
Orders(K) ==
    {o \in [1..Cardinality(K) -> K] : \A i, j \in 1..Cardinality(K) : o[i] = o[j] => i = j}

\* The loop of buildHeaders over the keys in the order given.
RECURSIVE HeadersLoop(_, _, _)
HeadersLoop(m, order, headers) ==
    IF order = <<>> THEN [err |-> FALSE, isNil |-> FALSE, h |-> headers]
    ELSE LET k == Head(order)
             val == m[k]
         IN  IF val.t = "string"
                THEN HeadersLoop(m, Tail(order), Set(headers, k, val.lit))
             ELSE IF val.t = "number"
                THEN HeadersLoop(m, Tail(order), Set(headers, k, String(val)))
             ELSE [err |-> TRUE, isNil |-> TRUE, h |-> EmptyHeader]

\* buildHeaders
buildHeaders(msg, order) ==
    IF ~msg.Headers.isNil
       THEN HeadersLoop(msg.Headers.m, order, EmptyHeader)
       ELSE [err |-> FALSE, isNil |-> TRUE, h |-> EmptyHeader]

\* http.NewRequest fails for a method that is no token and for a URL that
\* url.Parse rejects; the request it returns has an empty header, and its
\* body is a reader over the slice it was given, on the same array.
NewRequest(method, uri, body) ==
    IF method = "G T" \/ uri = ":x"
       THEN [err |-> TRUE, Method |-> "", URL |-> "", Header |-> EmptyHeader,
             Body |-> NilBody]
       ELSE [err |-> FALSE, Method |-> method, URL |-> uri, Header |-> EmptyHeader,
             Body |-> body]

\* buildRequest
buildRequest(msg, order) ==
    LET req == NewRequest(msg.Method, msg.URI, msg.Body)
        headers == buildHeaders(msg, order)
    IN  IF req.err THEN req
        ELSE IF headers.err THEN [req EXCEPT !.err = TRUE]
        ELSE IF ~headers.isNil THEN [req EXCEPT !.Header = headers.h]
        ELSE req

\* What BuildJob returns: nil and an error, or an *HTTPJob with its request.
NoRequest == [err |-> TRUE, Method |-> "", URL |-> "", Header |-> EmptyHeader,
              Body |-> NilBody]
\* bres of a call that has not returned.
NoResult == [job |-> "none", err |-> FALSE, req |-> NoRequest]

\* No goroutine calls BuildJob or HTTPJob.Do step by step: no call has locals.
NoBuilder ==
    /\ dopc = <<>>
    /\ doworker = <<>>
    /\ dotrip = <<>>
    /\ doentry = <<>>
    /\ httpMessagePool = {}
    /\ bpc = <<>>
    /\ bdata = <<>>
    /\ bgot = <<>>
    /\ bmsg = <<>>
    /\ bres = <<>>
    /\ heap = <<>>

\* The callers of BuildJob before their first call; no array holds a body.
BuilderInit ==
    /\ httpMessagePool = {}
    /\ bpc = [c \in Callers |-> "idle"]
    /\ bdata = [c \in Callers |-> EmptyData]
    /\ bgot = [c \in Callers |-> ZeroMessage]
    /\ bmsg = [c \in Callers |-> ZeroMessage]
    /\ bres = [c \in Callers |-> NoResult]
    /\ heap = [a \in Arrays |-> ""]

----------------------------------------------------------------------------
\* The pool's state after NewPool

PoolInit ==
    /\ jobQueue = <<>>
    /\ workerPool = <<>>
    /\ wpc = [w \in Workers |-> "register"]
    /\ wjob = [w \in Workers |-> NoJob]
    /\ dpc = "select"
    /\ djob = NoJob
    /\ dworker = NoWorker
    /\ di = 0
    /\ stopsRecv = [w \in Workers |-> 0]
    /\ stopAcks = [w \in Workers |-> 0]

JobsInit ==
    /\ kind = [j \in Jobs |-> "none"]
    /\ jst = [j \in Jobs |-> "none"]
    /\ started = [j \in Jobs |-> 0]
    /\ finished = [j \in Jobs |-> 0]
    /\ infLog = 0
    /\ errLog = 0

RelInit ==
    /\ rpc = "idle"
    /\ relCalls = 0
    /\ relReturned = 0

ConsInit ==
    /\ conn = "open"
    /\ taken = 0
    /\ payload = [d \in Jobs |-> "none"]
    /\ hpc = [d \in Jobs |-> "none"]
    /\ acks = [d \in Jobs |-> 0]
    /\ brokerAcked = {}
    /\ wg = 0

\* A pool from NewPool(numWorkers, jobQueueLen), used by its owner directly.
Init ==
    /\ proc = "running"
    /\ numWorkers \in 1..MaxWorkers
    /\ jobQueueLen \in 0..MaxQueueLen
    /\ PoolInit
    /\ JobsInit
    /\ RelInit
    /\ ConsInit
    /\ cpc = "none"
    /\ NoBuilder

----------------------------------------------------------------------------
\* Pool.AddJob

\* The next job a caller submits (jobs are numbered in the order of the calls).
NextJob == Cardinality({j \in Jobs : jst[j] # "none"}) + 1

\* A caller enters AddJob(job): it is now at the send p.JobQueue <- job.
AddJobCall(j, k) ==
    /\ proc = "running"
    /\ j \in Jobs
    /\ jst[j] = "none"
    /\ \A i \in Jobs : jst[i] # "adding"
    /\ jst' = [jst EXCEPT ![j] = "adding"]
    /\ kind' = [kind EXCEPT ![j] = k]
    /\ UNCHANGED <<doVars, buildVars, proc, poolVars, started, finished, infLog, errLog, relVars, consVars>>

\* Variant: a send that never waits for a free slot.
AddJobSendUnbounded(j) ==
    /\ proc = "running"
    /\ jst[j] = "adding"
    /\ jobQueue' = Append(jobQueue, j)
    /\ jst' = [jst EXCEPT ![j] = "accepted"]
    /\ UNCHANGED <<doVars, buildVars, proc, numWorkers, jobQueueLen, workerPool, wpc, wjob, dpc, djob,
                   dworker, di, stopsRecv, stopAcks, kind, started, finished,
                   infLog, errLog, relVars, consVars>>

\* The send completes into a free slot of the buffer and AddJob returns.
AddJobSend(j) ==
    /\ proc = "running"
    /\ jst[j] = "adding"
    /\ Len(jobQueue) < jobQueueLen
    /\ jobQueue' = Append(jobQueue, j)
    /\ jst' = [jst EXCEPT ![j] = "accepted"]
    /\ UNCHANGED <<doVars, buildVars, proc, numWorkers, jobQueueLen, workerPool, wpc, wjob, dpc, djob,
                   dworker, di, stopsRecv, stopAcks, kind, started, finished,
                   infLog, errLog, relVars, consVars>>

\* With an unbuffered JobQueue (length 0) the send completes by handing the
\* job to the dispatcher waiting in its select.
AddJobHandOff(j) ==
    /\ proc = "running"
    /\ jst[j] = "adding"
    /\ jobQueueLen = 0
    /\ dpc = "select"
    /\ jst' = [jst EXCEPT ![j] = "accepted"]
    /\ djob' = j
    /\ dpc' = "getWorker"
    /\ UNCHANGED <<doVars, buildVars, proc, numWorkers, jobQueueLen, jobQueue, workerPool, wpc, wjob,
                   dworker, di, stopsRecv, stopAcks, kind, started, finished,
                   infLog, errLog, relVars, consVars>>

----------------------------------------------------------------------------
\* worker.start

\* w.workerPool <- w
WorkerRegister(w) ==
    /\ proc = "running"
    /\ wpc[w] = "register"
    /\ Len(workerPool) < numWorkers
    /\ workerPool' = Append(workerPool, w)
    /\ wpc' = [wpc EXCEPT ![w] = "select"]
    /\ UNCHANGED <<doVars, buildVars, proc, numWorkers, jobQueueLen, jobQueue, wjob, dpc, djob, dworker,
                   di, stopsRecv, stopAcks, jobVars, relVars, consVars>>

\* Variant: the worker's goroutine ends after its job instead of looping.
DoReturnExits(j, rt) ==
    /\ proc = "running"
    /\ j \in Executing
    /\ Do(kind[j], rt) # "panic"
    /\ finished' = [finished EXCEPT ![j] = @ + 1]
    /\ infLog' = IF Do(kind[j], rt) = "info" THEN infLog + 1 ELSE infLog
    /\ errLog' = IF Do(kind[j], rt) = "error" THEN errLog + 1 ELSE errLog
    /\ wpc' = [w \in DOMAIN wpc |->
                 IF wpc[w] = "exec" /\ wjob[w] = j THEN "done" ELSE wpc[w]]
    /\ UNCHANGED <<doVars, buildVars, proc, numWorkers, jobQueueLen, jobQueue, workerPool, wjob, dpc,
                   djob, dworker, di, stopsRecv, stopAcks, kind, jst, started, relVars, consVars>>

\* job.Do returns normally, having written one log entry, and the worker
\* loops to register again.
DoReturn(j, rt) ==
    /\ proc = "running"
    /\ j \in Executing
    /\ Do(kind[j], rt) # "panic"
    /\ finished' = [finished EXCEPT ![j] = @ + 1]
    /\ infLog' = IF Do(kind[j], rt) = "info" THEN infLog + 1 ELSE infLog
    /\ errLog' = IF Do(kind[j], rt) = "error" THEN errLog + 1 ELSE errLog
    /\ wpc' = [w \in DOMAIN wpc |->
                 IF wpc[w] = "exec" /\ wjob[w] = j THEN "register" ELSE wpc[w]]
    /\ UNCHANGED <<doVars, buildVars, proc, numWorkers, jobQueueLen, jobQueue, workerPool, wjob, dpc,
                   djob, dworker, di, stopsRecv, stopAcks, kind, jst, started, relVars, consVars>>

----------------------------------------------------------------------------
\* dispatcher.dispatch

\* case job := <-d.jobQueue
DispatcherRecvJob ==
    /\ proc = "running"
    /\ dpc = "select"
    /\ Len(jobQueue) > 0
    /\ djob' = Head(jobQueue)
    /\ jobQueue' = Tail(jobQueue)
    /\ dpc' = "getWorker"
    /\ UNCHANGED <<doVars, buildVars, proc, numWorkers, jobQueueLen, workerPool, wpc, wjob, dworker, di,
                   stopsRecv, stopAcks, jobVars, relVars, consVars>>

\* Variant: the dispatcher reads the registry's head without removing it.
DispatcherGetWorkerPeek ==
    /\ proc = "running"
    /\ dpc = "getWorker"
    /\ Len(workerPool) > 0
    /\ dworker' = Head(workerPool)
    /\ workerPool' = workerPool
    /\ dpc' = "handoff"
    /\ UNCHANGED <<doVars, buildVars, proc, numWorkers, jobQueueLen, jobQueue, wpc, wjob, djob, di,
                   stopsRecv, stopAcks, jobVars, relVars, consVars>>

\* worker := <-d.workerPool (job branch)
DispatcherGetWorker ==
    /\ proc = "running"
    /\ dpc = "getWorker"
    /\ Len(workerPool) > 0
    /\ dworker' = Head(workerPool)
    /\ workerPool' = Tail(workerPool)
    /\ dpc' = "handoff"
    /\ UNCHANGED <<doVars, buildVars, proc, numWorkers, jobQueueLen, jobQueue, wpc, wjob, djob, di,
                   stopsRecv, stopAcks, jobVars, relVars, consVars>>

\* Variant: the dispatcher hands over the newest queued job ahead of the one
\* it holds.
HandOffJobNewestFirst ==
    /\ proc = "running"
    /\ dpc = "handoff"
    /\ wpc[dworker] = "select"
    /\ wpc' = [wpc EXCEPT ![dworker] = "exec"]
    /\ IF Len(jobQueue) > 0
          THEN /\ wjob' = [wjob EXCEPT ![dworker] = jobQueue[Len(jobQueue)]]
               /\ started' = [started EXCEPT ![jobQueue[Len(jobQueue)]] = @ + 1]
               /\ jobQueue' = SubSeq(jobQueue, 1, Len(jobQueue) - 1)
               /\ dpc' = "getWorker"
          ELSE /\ wjob' = [wjob EXCEPT ![dworker] = djob]
               /\ started' = [started EXCEPT ![djob] = @ + 1]
               /\ jobQueue' = jobQueue
               /\ dpc' = "select"
    /\ UNCHANGED <<doVars, buildVars, proc, numWorkers, jobQueueLen, workerPool, djob, dworker,
                   di, stopsRecv, stopAcks, kind, jst, finished, infLog, errLog, relVars, consVars>>

\* worker.jobChannel <- job meets the worker's case job = <-w.jobChannel, and
\* the worker calls job.Do.
HandOffJob ==
    /\ proc = "running"
    /\ dpc = "handoff"
    /\ wpc[dworker] = "select"
    /\ wpc' = [wpc EXCEPT ![dworker] = "exec"]
    /\ wjob' = [wjob EXCEPT ![dworker] = djob]
    /\ started' = [started EXCEPT ![djob] = @ + 1]
    /\ dpc' = "select"
    /\ UNCHANGED <<doVars, buildVars, proc, numWorkers, jobQueueLen, jobQueue, workerPool, djob, dworker,
                   di, stopsRecv, stopAcks, kind, jst, finished, infLog, errLog, relVars, consVars>>

\* Pool.Release: the caller arrives at p.dispatcher.stop <- struct{}{}.
ReleaseCall ==
    /\ proc = "running"
    /\ rpc = "idle"
    /\ relCalls < MaxRelease
    /\ rpc' = "send"
    /\ relCalls' = relCalls + 1
    /\ UNCHANGED <<doVars, buildVars, proc, poolVars, jobVars, relReturned, consVars>>

\* Variant: the dispatcher also takes the stop request while it holds a job
\* and waits for a worker.
DispatcherRecvStopEarly ==
    /\ proc = "running"
    /\ dpc \in {"select", "getWorker"}
    /\ rpc = "send"
    /\ rpc' = "wait"
    /\ di' = 0
    /\ dpc' = IF 0 < numWorkers THEN "stopGet" ELSE "stopAck"
    /\ UNCHANGED <<doVars, buildVars, proc, numWorkers, jobQueueLen, jobQueue, workerPool, wpc, wjob, djob,
                   dworker, stopsRecv, stopAcks, jobVars, relCalls, relReturned, consVars>>

\* Variant: a dispatcher that has stopped still answers a stop request.
DispatcherRecvStopAfterExit ==
    /\ proc = "running"
    /\ dpc \in {"select", "done"}
    /\ rpc = "send"
    /\ rpc' = "wait"
    /\ di' = 0
    /\ dpc' = IF 0 < numWorkers /\ dpc = "select" THEN "stopGet" ELSE "stopAck"
    /\ UNCHANGED <<doVars, buildVars, proc, numWorkers, jobQueueLen, jobQueue, workerPool, wpc, wjob, djob,
                   dworker, stopsRecv, stopAcks, jobVars, relCalls, relReturned, consVars>>

\* case <-d.stop meets Release's send; the dispatcher enters its stop loop.
DispatcherRecvStop ==
    /\ proc = "running"
    /\ dpc = "select"
    /\ rpc = "send"
    /\ rpc' = "wait"
    /\ di' = 0
    /\ dpc' = IF 0 < numWorkers THEN "stopGet" ELSE "stopAck"
    /\ UNCHANGED <<doVars, buildVars, proc, numWorkers, jobQueueLen, jobQueue, workerPool, wpc, wjob, djob,
                   dworker, stopsRecv, stopAcks, jobVars, relCalls, relReturned, consVars>>

\* worker := <-d.workerPool (stop branch)
DispatcherStopGetWorker ==
    /\ proc = "running"
    /\ dpc = "stopGet"
    /\ Len(workerPool) > 0
    /\ dworker' = Head(workerPool)
    /\ workerPool' = Tail(workerPool)
    /\ dpc' = "stopSend"
    /\ UNCHANGED <<doVars, buildVars, proc, numWorkers, jobQueueLen, jobQueue, wpc, wjob, djob, di,
                   stopsRecv, stopAcks, jobVars, relVars, consVars>>

\* Variant: the dispatcher does not wait for the worker's acknowledgment.
SendStopNoWait ==
    /\ proc = "running"
    /\ dpc = "stopSend"
    /\ wpc[dworker] = "select"
    /\ wpc' = [wpc EXCEPT ![dworker] = "ack"]
    /\ stopsRecv' = [stopsRecv EXCEPT ![dworker] = @ + 1]
    /\ di' = di + 1
    /\ dpc' = IF di + 1 < numWorkers THEN "stopGet" ELSE "stopAck"
    /\ UNCHANGED <<doVars, buildVars, proc, numWorkers, jobQueueLen, jobQueue, workerPool, wjob, djob,
                   dworker, stopAcks, jobVars, relVars, consVars>>

\* Variant: the worker returns on the stop signal without acknowledging it.
SendStopWorkerQuits ==
    /\ proc = "running"
    /\ dpc = "stopSend"
    /\ wpc[dworker] = "select"
    /\ wpc' = [wpc EXCEPT ![dworker] = "done"]
    /\ stopsRecv' = [stopsRecv EXCEPT ![dworker] = @ + 1]
    /\ dpc' = "stopWait"
    /\ UNCHANGED <<doVars, buildVars, proc, numWorkers, jobQueueLen, jobQueue, workerPool, wjob, djob,
                   dworker, di, stopAcks, jobVars, relVars, consVars>>

\* Variant: the stop signal goes to any worker, busy or idle, instead of the
\* one taken from the registry.
SendStopAnyWorker ==
    /\ proc = "running"
    /\ dpc = "stopSend"
    /\ \E w \in Workers :
          /\ wpc[w] \in {"select", "exec"}
          /\ wpc' = [wpc EXCEPT ![w] = "ack"]
          /\ stopsRecv' = [stopsRecv EXCEPT ![w] = @ + 1]
          /\ dworker' = w
    /\ dpc' = "stopWait"
    /\ UNCHANGED <<doVars, buildVars, proc, numWorkers, jobQueueLen, jobQueue, workerPool, wjob, djob,
                   di, stopAcks, jobVars, relVars, consVars>>

\* worker.stop <- struct{}{} meets the worker's case <-w.stop.
SendStop ==
    /\ proc = "running"
    /\ dpc = "stopSend"
    /\ wpc[dworker] = "select"
    /\ wpc' = [wpc EXCEPT ![dworker] = "ack"]
    /\ stopsRecv' = [stopsRecv EXCEPT ![dworker] = @ + 1]
    /\ dpc' = "stopWait"
    /\ UNCHANGED <<doVars, buildVars, proc, numWorkers, jobQueueLen, jobQueue, workerPool, wjob, djob,
                   dworker, di, stopAcks, jobVars, relVars, consVars>>

\* Variant: a stop loop that ends one worker early.
AfterStopOneShort(i) == IF i + 2 < numWorkers THEN "stopGet" ELSE "stopAck"

\* Where the stop loop goes after one worker: the next i, or out of the loop.
AfterStop(i) == IF i + 1 < numWorkers THEN "stopGet" ELSE "stopAck"

\* The worker's w.stop <- struct{}{} meets the dispatcher's <-worker.stop; the
\* worker returns.
StopAck ==
    /\ proc = "running"
    /\ dpc = "stopWait"
    /\ wpc[dworker] = "ack"
    /\ wpc' = [wpc EXCEPT ![dworker] = "done"]
    /\ stopAcks' = [stopAcks EXCEPT ![dworker] = @ + 1]
    /\ di' = di + 1
    /\ dpc' = AfterStop(di)
    /\ UNCHANGED <<doVars, buildVars, proc, numWorkers, jobQueueLen, jobQueue, workerPool, wjob, djob,
                   dworker, stopsRecv, jobVars, relVars, consVars>>

\* Variant: the dispatcher goes back to its select after the stop sequence.
DispatcherStoppedLoops ==
    /\ proc = "running"
    /\ dpc = "stopAck"
    /\ rpc = "wait"
    /\ dpc' = "select"
    /\ rpc' = "idle"
    /\ relReturned' = relReturned + 1
    /\ UNCHANGED <<doVars, buildVars, proc, numWorkers, jobQueueLen, jobQueue, workerPool, wpc, wjob, djob,
                   dworker, di, stopsRecv, stopAcks, jobVars, relCalls, consVars>>

\* d.stop <- struct{}{} meets Release's <-p.dispatcher.stop; dispatch returns
\* and Release returns.
DispatcherStopped ==
    /\ proc = "running"
    /\ dpc = "stopAck"
    /\ rpc = "wait"
    /\ dpc' = "done"
    /\ rpc' = "idle"
    /\ relReturned' = relReturned + 1
    /\ UNCHANGED <<doVars, buildVars, proc, numWorkers, jobQueueLen, jobQueue, workerPool, wpc, wjob, djob,
                   dworker, di, stopsRecv, stopAcks, jobVars, relCalls, consVars>>

----------------------------------------------------------------------------
\* The pool with its owner, which submits jobs and calls Release.

PoolStep ==
    \/ \E w \in Workers : WorkerRegister(w)
    \/ \E j \in Jobs, rt \in RoundTrips : DoReturn(j, rt)
    \/ DispatcherRecvJob
    \/ DispatcherGetWorker
    \/ HandOffJob
    \/ \E j \in Jobs : AddJobSend(j)
    \/ \E j \in Jobs : AddJobHandOff(j)

StopStep ==
    \/ ReleaseCall
    \/ DispatcherRecvStop
    \/ DispatcherStopGetWorker
    \/ SendStop
    \/ StopAck
    \/ DispatcherStopped

\* The pool's caller submits jobs one after the other; its jobs are not nil.
Submit == AddJobCall(NextJob, "http")

Next == Submit \/ PoolStep \/ StopStep

Spec == Init /\ [][Next]_vars

\* Scheduling: the Go scheduler runs a goroutine that can take a step, a
\* channel operation whose partner is waiting completes, and every Do returns
\* (the premise of the liveness claims): as long as some step of the pool is
\* possible, a step of the pool is taken.  The owner's calls (AddJob, Release)
\* are under no obligation.
PoolFairness == WF_vars(PoolStep)

StopFairness ==
    WF_vars(DispatcherRecvStop \/ DispatcherStopGetWorker \/ SendStop
               \/ StopAck \/ DispatcherStopped)

\* The runs with fairness give each job one round trip, by its number: what
\* Do logs does not direct the worker, which registers again either way.
TripOf(j) == IF j % 3 = 1 THEN "200" ELSE IF j % 3 = 2 THEN "err" ELSE "500"

FairPoolStep ==
    \/ \E w \in Workers : WorkerRegister(w)
    \/ \E j \in Jobs : DoReturn(j, TripOf(j))
    \/ DispatcherRecvJob
    \/ DispatcherGetWorker
    \/ HandOffJob
    \/ \E j \in Jobs : AddJobSend(j)
    \/ \E j \in Jobs : AddJobHandOff(j)

FairNext == Submit \/ FairPoolStep \/ StopStep

FairSpec == Init /\ [][FairNext]_vars /\ WF_vars(FairPoolStep) /\ StopFairness

\* The pool when its owner never calls Release.
NextNoRelease == Submit \/ PoolStep

NoReleaseFairSpec == Init /\ [][NextNoRelease]_vars /\ PoolFairness

----------------------------------------------------------------------------
\* The broker connection and the process

\* The payloads the broker delivers: "good" decodes to a request (valid JSON,
\* non-empty method and uri, string or number headers), "bad" does not.
Payloads == {"good", "bad"}

\* The broker closes the connection: the close notification is sent on closeErr
\* and the delivery stream msgs is closed.
ConnClose ==
    /\ proc = "running"
    /\ cpc # "none"
    /\ conn = "open"
    /\ conn' = "closed"
    /\ UNCHANGED <<doVars, buildVars, proc, poolVars, jobVars, relVars, cpc, taken, payload, hpc, acks,
                   brokerAcked, wg>>

\* Variant: a handler that logs the notification and reconnects.
ConnectionCloseHandlerReconnects ==
    /\ proc = "running"
    /\ conn = "closed"
    /\ errLog' = errLog + 1
    /\ conn' = "open"
    /\ UNCHANGED <<doVars, buildVars, proc, poolVars, kind, jst, started, finished, infLog, relVars,
                   cpc, taken, payload, hpc, acks, brokerAcked, wg>>

\* ConnectionCloseHandler: err := <-closeErr, then ErrLogger.Fatalf, which
\* writes the entry and calls os.Exit.
ConnectionCloseHandler ==
    /\ proc = "running"
    /\ conn = "closed"
    /\ errLog' = errLog + 1
    /\ proc' = "exited"
    /\ UNCHANGED <<doVars, buildVars, poolVars, kind, jst, started, finished, infLog, relVars, consVars>>

\* A worker calls Do on a nil domain.Job: a nil dereference panic, which no
\* goroutine recovers, ends the process.
DoPanic(j) ==
    /\ proc = "running"
    /\ j \in Executing
    /\ \A rt \in RoundTrips : Do(kind[j], rt) = "panic"
    /\ proc' = "crashed"
    /\ UNCHANGED <<doVars, buildVars, poolVars, jobVars, relVars, consVars>>

----------------------------------------------------------------------------
\* Consumer.Consume over the pool (consumer/consumer.go with NewPool)

\* HTTPJobBuilder.BuildJob: the job and the error it returns.
BuildJob(p) == IF p = "bad" THEN [job |-> "nil", err |-> TRUE]
               ELSE [job |-> "http", err |-> FALSE]

\* Channel.Consume(queue, "", autoAck = true, ...): the broker counts a delivery
\* as acknowledged when it sends it.
AutoAck == TRUE

\* One turn of for d := range msgs: take the delivery, BuildJob, log the error
\* if any, and call pool.AddJob(job) with whatever BuildJob returned.
ConsumeNext(p) ==
    /\ proc = "running"
    /\ cpc = "range"
    /\ conn = "open"
    /\ taken < MaxJobs
    /\ \A i \in Jobs : jst[i] # "adding"
    /\ LET d == taken + 1
           b == BuildJob(p)
       IN  /\ taken' = d
           /\ payload' = [payload EXCEPT ![d] = p]
           /\ errLog' = IF b.err THEN errLog + 1 ELSE errLog
           /\ jst' = [jst EXCEPT ![d] = "adding"]
           /\ kind' = [kind EXCEPT ![d] = b.job]
           /\ acks' = [acks EXCEPT ![d] = IF AutoAck THEN 1 ELSE 0]
           /\ brokerAcked' = IF AutoAck THEN brokerAcked \cup {d} ELSE brokerAcked
    /\ UNCHANGED <<doVars, buildVars, proc, poolVars, started, finished, infLog, relVars, conn, cpc,
                   hpc, wg>>

\* msgs is closed and the loop is not inside AddJob: range ends.
ConsumeRangeEnd ==
    /\ proc = "running"
    /\ cpc = "range"
    /\ conn = "closed"
    /\ \A i \in Jobs : jst[i] # "adding"
    /\ cpc' = "waitall"
    /\ UNCHANGED <<doVars, buildVars, proc, poolVars, jobVars, relVars, conn, taken, payload, hpc, acks,
                   brokerAcked, wg>>

\* Variant: Consume returns after WaitAll, and its deferred pool.Release runs.
ConsumeWaitAllReturns ==
    /\ proc = "running"
    /\ cpc = "waitall"
    /\ wg = 0
    /\ cpc' = "returned"
    /\ rpc' = "send"
    /\ relCalls' = relCalls + 1
    /\ UNCHANGED <<doVars, buildVars, proc, poolVars, jobVars, relReturned, conn, taken, payload,
                   hpc, acks, brokerAcked, wg>>

\* pool.WaitAll() returns when the counter is zero; Consume then blocks on
\* <-forever.
ConsumeWaitAll ==
    /\ proc = "running"
    /\ cpc = "waitall"
    /\ wg = 0
    /\ cpc' = "forever"
    /\ UNCHANGED <<doVars, buildVars, proc, poolVars, jobVars, relVars, conn, taken, payload, hpc, acks,
                   brokerAcked, wg>>

ConsumerInit ==
    /\ proc = "running"
    /\ numWorkers \in 1..MaxWorkers
    /\ jobQueueLen \in 0..MaxQueueLen
    /\ PoolInit
    /\ JobsInit
    /\ RelInit
    /\ ConsInit
    /\ cpc = "range"
    /\ NoBuilder

ConsumerNext ==
    \/ \E p \in Payloads : ConsumeNext(p)
    \/ ConsumeRangeEnd
    \/ ConsumeWaitAll
    \/ PoolStep
    \/ \E j \in Jobs : DoPanic(j)
    \/ ConnClose
    \/ ConnectionCloseHandler

ConsumerSpec == ConsumerInit /\ [][ConsumerNext]_vars

\* The consumer configured with one worker (cfg.Workers.Count = 1) and any
\* queue length.
OneWorkerInit == ConsumerInit /\ numWorkers = 1

\* The goroutine of ConnectionCloseHandler is scheduled: once the notification
\* is on closeErr its receive and Fatalf happen.
ConsumerFairSpec ==
    OneWorkerInit /\ [][ConsumerNext]_vars /\ WF_vars(ConnectionCloseHandler)

----------------------------------------------------------------------------
\* Consumer.Consume with one goroutine per delivery and explicit
\* acknowledgment (consumer/consumer.go with handleMsg and d.Ack)

\* cfg.Prefetch.Count as New sets it when the configuration leaves it 0.
Prefetch == 3

\* MessageHandler.HandleMessage: "error" when the message does not parse, the
\* request cannot be built or the round trip fails; otherwise it logs the
\* request to the info sink and returns nil.
HandleMessage(p, rt) == IF p = "bad" \/ rt = "err" THEN "error" ELSE "info"

\* The deliveries the broker acknowledges on d.Ack(multiple): the delivery
\* itself and, when multiple is set, every earlier unacknowledged one.
Ack(d, multiple) ==
    IF multiple THEN {t \in 1..taken : t <= d /\ t \notin brokerAcked} \cup {d}
    ELSE {d}

\* One turn of for d := range msgs: go func(...){...}(&wg, d).  The broker
\* sends a delivery only while fewer than Prefetch are unacknowledged.
FanoutNext(p) ==
    /\ proc = "running"
    /\ cpc = "range"
    /\ conn = "open"
    /\ taken < MaxJobs
    /\ Cardinality((1..taken) \ brokerAcked) < Prefetch
    /\ taken' = taken + 1
    /\ payload' = [payload EXCEPT ![taken + 1] = p]
    /\ hpc' = [hpc EXCEPT ![taken + 1] = "start"]
    /\ UNCHANGED <<doVars, buildVars, proc, poolVars, jobVars, relVars, conn, cpc, acks, brokerAcked, wg>>

\* msgs is closed: the range loop's goroutine ends.
FanoutRangeEnd ==
    /\ proc = "running"
    /\ cpc = "range"
    /\ conn = "closed"
    /\ cpc' = "ended"
    /\ UNCHANGED <<doVars, buildVars, proc, poolVars, jobVars, relVars, conn, taken, payload, hpc, acks,
                   brokerAcked, wg>>

\* The delivery's goroutine starts: wg.Add(1), then handleMsg calls
\* HandleMessage.
HandlerStart(d) ==
    /\ proc = "running"
    /\ hpc[d] = "start"
    /\ wg' = wg + 1
    /\ hpc' = [hpc EXCEPT ![d] = "handle"]
    /\ UNCHANGED <<doVars, buildVars, proc, poolVars, jobVars, relVars, conn, cpc, taken, payload, acks,
                   brokerAcked>>

\* HandleMessage returns; handleMsg logs its error, if any.
HandleMessageReturn(d, rt) ==
    /\ proc = "running"
    /\ hpc[d] = "handle"
    /\ infLog' = IF HandleMessage(payload[d], rt) = "info" THEN infLog + 1 ELSE infLog
    /\ errLog' = IF HandleMessage(payload[d], rt) = "error" THEN errLog + 1 ELSE errLog
    /\ hpc' = [hpc EXCEPT ![d] = "ack"]
    /\ UNCHANGED <<doVars, buildVars, proc, poolVars, kind, jst, started, finished, relVars, conn, cpc,
                   taken, payload, acks, brokerAcked, wg>>

\* Variant: handleMsg without its d.Ack.
HandlerAckMissing(d) ==
    /\ proc = "running"
    /\ hpc[d] = "ack"
    /\ wg' = wg - 1
    /\ hpc' = [hpc EXCEPT ![d] = "done"]
    /\ UNCHANGED <<doVars, buildVars, proc, poolVars, jobVars, relVars, conn, cpc, taken, payload, acks,
                   brokerAcked>>

\* d.Ack(true), whose error (the connection is gone) is logged; then the
\* deferred wg.Done() and the goroutine ends.
HandlerAck(d) ==
    /\ proc = "running"
    /\ hpc[d] = "ack"
    /\ acks' = [acks EXCEPT ![d] = @ + 1]
    /\ brokerAcked' = IF conn = "open" THEN brokerAcked \cup Ack(d, TRUE)
                      ELSE brokerAcked
    /\ errLog' = IF conn = "open" THEN errLog ELSE errLog + 1
    /\ wg' = wg - 1
    /\ hpc' = [hpc EXCEPT ![d] = "done"]
    /\ UNCHANGED <<doVars, buildVars, proc, poolVars, kind, jst, started, finished, infLog, relVars, conn,
                   cpc, taken, payload>>

\* No pool exists in this consumer.
FanoutInit ==
    /\ proc = "running"
    /\ numWorkers = 0
    /\ jobQueueLen = 0
    /\ PoolInit
    /\ JobsInit
    /\ RelInit
    /\ ConsInit
    /\ cpc = "range"
    /\ NoBuilder

FanoutStep ==
    \/ \E p \in Payloads : FanoutNext(p)
    \/ FanoutRangeEnd
    \/ \E d \in Jobs : HandlerStart(d)
    \/ \E d \in Jobs, rt \in RoundTrips : HandleMessageReturn(d, rt)
    \/ \E d \in Jobs : HandlerAck(d)

FanoutSpecNext == FanoutStep \/ ConnClose \/ ConnectionCloseHandler

FanoutSpec == FanoutInit /\ [][FanoutSpecNext]_vars

----------------------------------------------------------------------------
\* HTTPJobBuilder.BuildJob, called by concurrent goroutines

\* The payloads of the calls that share the scratch messages: all fields
\* given, method and uri only, other headers and another body, no uri, null,
\* and the empty payload.
ScratchData ==
    {[syntax |-> "object", more |-> FALSE, present |-> Fields, method |-> "GET",
      uri |-> "http://x",
      headers |-> [k \in {<<"x", "-", "a">>} |-> [t |-> "string", lit |-> "1"]],
      body |-> "b"],
     [syntax |-> "object", more |-> FALSE, present |-> {"method", "uri"},
      method |-> "GET", uri |-> "http://x", headers |-> NoHeaders, body |-> ""],
     [syntax |-> "object", more |-> FALSE, present |-> Fields,
      method |-> "GET", uri |-> "http://x",
      headers |-> [k \in {<<"X", "-", "A">>} |-> [t |-> "number", lit |-> "1.0"]],
      body |-> "c"],
     [syntax |-> "object", more |-> FALSE, present |-> {"method"},
      method |-> "GET", uri |-> "", headers |-> NoHeaders, body |-> ""],
     [syntax |-> "null", more |-> FALSE, present |-> {}, method |-> "",
      uri |-> "", headers |-> NoHeaders, body |-> ""],
     EmptyData}

\* The arrays something still points into: the bodies of the messages in
\* the pool and in the hands of the callers inside a call, and of the
\* requests of the returned jobs.
Live(pool, pc, msgs, res) ==
    {m.Body.arr : m \in pool}
        \cup {msgs[c].Body.arr : c \in {x \in Callers : pc[x] \in {"got", "parsed", "failed"}}}
        \cup {res[c].req.Body.arr : c \in Callers}

\* The array an allocation in caller c's parse returns: one that nothing
\* points into, the message of c having been reset.
NewArray(c) ==
    CHOOSE a \in Arrays :
        a \notin Live(httpMessagePool, bpc, [bmsg EXCEPT ![c] = reset(bmsg[c])], bres)

\* The memory with the arrays that nothing points into any more given back:
\* what they hold can no longer be read.
Sweep(mem, live) == [a \in Arrays |-> IF a \in live THEN mem[a] ELSE ""]

\* A goroutine calls BuildJob(data).
BuildJobCall(c, data) ==
    /\ proc = "running"
    /\ bpc[c] \in {"idle", "returned"}
    /\ bpc' = [bpc EXCEPT ![c] = "called"]
    /\ bdata' = [bdata EXCEPT ![c] = data]
    /\ bres' = [bres EXCEPT ![c] = NoResult]
    /\ bgot' = [bgot EXCEPT ![c] = ZeroMessage]
    /\ bmsg' = [bmsg EXCEPT ![c] = ZeroMessage]
    /\ UNCHANGED <<doVars, proc, poolVars, jobVars, relVars, consVars, httpMessagePool>>
    /\ heap' = Sweep(heap, Live(httpMessagePool', bpc', bmsg', bres'))

\* The garbage collector drops the messages the sync.Pool holds.
PoolCleanup ==
    /\ proc = "running"
    /\ httpMessagePool # {}
    /\ httpMessagePool' = {}
    /\ UNCHANGED <<doVars, proc, poolVars, jobVars, relVars, consVars, bpc, bdata, bgot,
                   bmsg, bres>>
    /\ heap' = Sweep(heap, Live(httpMessagePool', bpc', bmsg', bres'))

\* msg := httpMessagePool.Get(): a message some call has Put, taken out of
\* the pool, or a new one from New when the pool holds none.
BuildJobGet(c) ==
    /\ proc = "running"
    /\ bpc[c] = "called"
    /\ \E m \in IF httpMessagePool = {} THEN {ZeroMessage} ELSE httpMessagePool :
          /\ httpMessagePool' = httpMessagePool \ {m}
          /\ bgot' = [bgot EXCEPT ![c] = m]
          /\ bmsg' = [bmsg EXCEPT ![c] = m]
    /\ bpc' = [bpc EXCEPT ![c] = "got"]
    /\ UNCHANGED <<doVars, proc, poolVars, jobVars, relVars, consVars, bdata, bres,
                   heap>>

\* msg.reset() and msg.parse(data)
BuildJobParse(c) ==
    /\ proc = "running"
    /\ bpc[c] = "got"
    /\ LET r == parse(reset(bmsg[c]), bdata[c], heap, NewArray(c))
       IN  /\ bmsg' = [bmsg EXCEPT ![c] = r.msg]
           /\ bpc' = [bpc EXCEPT ![c] = IF r.err = "" THEN "parsed" ELSE "failed"]
           /\ UNCHANGED <<doVars, proc, poolVars, jobVars, relVars, consVars,
                          httpMessagePool, bdata, bgot, bres>>
           /\ heap' = Sweep(r.mem, Live(httpMessagePool', bpc', bmsg', bres'))

\* parse has failed: BuildJob returns nil and the error, and the deferred Put
\* gives the message back.
BuildJobParseError(c) ==
    /\ proc = "running"
    /\ bpc[c] = "failed"
    /\ bres' = [bres EXCEPT ![c] = [job |-> "nil", err |-> TRUE, req |-> NoRequest]]
    /\ httpMessagePool' = httpMessagePool \cup {bmsg[c]}
    /\ bpc' = [bpc EXCEPT ![c] = "returned"]
    /\ UNCHANGED <<doVars, proc, poolVars, jobVars, relVars, consVars, bdata, bgot, bmsg>>
    /\ heap' = Sweep(heap, Live(httpMessagePool', bpc', bmsg', bres'))

\* buildRequest(msg), with the map visited in some order; BuildJob returns
\* nil and the error, or the job with the request, and the deferred Put gives
\* the message back.
BuildJobReturn(c) ==
    /\ proc = "running"
    /\ bpc[c] = "parsed"
    /\ \E order \in Orders(DOMAIN bmsg[c].Headers.m) :
          LET req == buildRequest(bmsg[c], order)
          IN  bres' = [bres EXCEPT ![c] =
                         IF req.err
                            THEN [job |-> "nil", err |-> TRUE, req |-> NoRequest]
                            ELSE [job |-> "http", err |-> FALSE, req |-> req]]
    /\ httpMessagePool' = httpMessagePool \cup {bmsg[c]}
    /\ bpc' = [bpc EXCEPT ![c] = "returned"]
    /\ UNCHANGED <<doVars, proc, poolVars, jobVars, relVars, consVars, bdata, bgot, bmsg>>
    /\ heap' = Sweep(heap, Live(httpMessagePool', bpc', bmsg', bres'))

\* The steps of a call of BuildJob.
BuildJobStep(c) ==
    \/ BuildJobGet(c)
    \/ BuildJobParse(c)
    \/ BuildJobParseError(c)
    \/ BuildJobReturn(c)

\* The state with no consumer and no job, in which the builder is looked at.
BuilderOnlyInit ==
    /\ dopc = <<>>
    /\ doworker = <<>>
    /\ dotrip = <<>>
    /\ doentry = <<>>
    /\ proc = "running"
    /\ numWorkers = 1
    /\ jobQueueLen = 0
    /\ PoolInit
    /\ JobsInit
    /\ RelInit
    /\ ConsInit
    /\ cpc = "none"

\* One call of BuildJob for every payload.
BuildJobInit ==
    /\ BuilderOnlyInit
    /\ httpMessagePool = {}
    /\ bpc = [c \in Callers |-> IF c = "caller1" THEN "called" ELSE "idle"]
    /\ bdata \in {[c \in Callers |-> IF c = "caller1" THEN d ELSE EmptyData] : d \in Data}
    /\ bgot = [c \in Callers |-> ZeroMessage]
    /\ bmsg = [c \in Callers |-> ZeroMessage]
    /\ bres = [c \in Callers |-> NoResult]
    /\ heap = [a \in Arrays |-> ""]

BuildJobNext == PoolCleanup \/ \E c \in Callers : BuildJobStep(c)

BuildJobSpec == BuildJobInit /\ [][BuildJobNext]_vars

\* Two goroutines that call BuildJob again and again.
ScratchInit == BuilderOnlyInit /\ BuilderInit

ScratchNext ==
    \/ PoolCleanup
    \/ \E c \in Callers :
          \/ \E data \in ScratchData : BuildJobCall(c, data)
          \/ BuildJobStep(c)

ScratchSpec == ScratchInit /\ [][ScratchNext]_vars

----------------------------------------------------------------------------
\* HTTPJob.Do called directly, by several goroutines at once

\* The entry of a call that has written none.
NoEntry == [sink |-> "none", worker |-> NoWorker, status |-> "none"]

\* The jobs are HTTP jobs; no pool and no consumer runs.
DoInit ==
    /\ proc = "running"
    /\ numWorkers \in 1..MaxWorkers
    /\ jobQueueLen = 0
    /\ PoolInit
    /\ kind = [j \in Jobs |-> "http"]
    /\ jst = [j \in Jobs |-> "none"]
    /\ started = [j \in Jobs |-> 0]
    /\ finished = [j \in Jobs |-> 0]
    /\ infLog = 0
    /\ errLog = 0
    /\ RelInit
    /\ ConsInit
    /\ cpc = "none"
    /\ httpMessagePool = {}
    /\ bpc = <<>>
    /\ bdata = <<>>
    /\ bgot = <<>>
    /\ bmsg = <<>>
    /\ bres = <<>>
    /\ heap = <<>>
    /\ dopc = [j \in Jobs |-> "none"]
    /\ doworker = [j \in Jobs |-> NoWorker]
    /\ dotrip = [j \in Jobs |-> "none"]
    /\ doentry = [j \in Jobs |-> NoEntry]

\* hj.Do(worker, infLogger, errLogger) is called and calls hj.client.Do.
DoCall(j, w) ==
    /\ proc = "running"
    /\ dopc[j] = "none"
    /\ dopc' = [dopc EXCEPT ![j] = "client"]
    /\ doworker' = [doworker EXCEPT ![j] = w]
    /\ started' = [started EXCEPT ![j] = @ + 1]
    /\ UNCHANGED <<proc, poolVars, kind, jst, finished, infLog, errLog, relVars,
                   consVars, buildVars, dotrip, doentry>>

\* resp, err := hj.client.Do(hj.req) returns.
ClientDo(j, rt) ==
    /\ proc = "running"
    /\ dopc[j] = "client"
    /\ dotrip' = [dotrip EXCEPT ![j] = rt]
    /\ dopc' = [dopc EXCEPT ![j] = "log"]
    /\ UNCHANGED <<proc, poolVars, jobVars, relVars, consVars, buildVars, doworker,
                   doentry>>

\* The rest of Do: errLogger.Printf and return on an error, else
\* infLogger.Printf with worker, method, url and resp.Status, and return.
DoLogReturn(j) ==
    /\ proc = "running"
    /\ dopc[j] = "log"
    /\ Do(kind[j], dotrip[j]) # "panic"
    /\ infLog' = IF Do(kind[j], dotrip[j]) = "info" THEN infLog + 1 ELSE infLog
    /\ errLog' = IF Do(kind[j], dotrip[j]) = "error" THEN errLog + 1 ELSE errLog
    /\ doentry' = [doentry EXCEPT ![j] =
                     IF Do(kind[j], dotrip[j]) = "info"
                        THEN [sink |-> "info", worker |-> doworker[j], status |-> dotrip[j]]
                        ELSE [sink |-> "error", worker |-> NoWorker, status |-> "none"]]
    /\ finished' = [finished EXCEPT ![j] = @ + 1]
    /\ dopc' = [dopc EXCEPT ![j] = "returned"]
    /\ UNCHANGED <<proc, poolVars, kind, jst, started, relVars, consVars, buildVars,
                   doworker, dotrip>>

DoNext ==
    \E j \in Jobs :
        \/ \E w \in Workers : DoCall(j, w)
        \/ \E rt \in RoundTrips : ClientDo(j, rt)
        \/ DoLogReturn(j)

DoSpec == DoInit /\ [][DoNext]_vars

----------------------------------------------------------------------------
\* Claims

\* Number of times job j occurs in the job queue.
InQueue(j) == Cardinality({i \in 1..Len(jobQueue) : jobQueue[i] = j})

\* The dispatcher has received job j and not yet handed it to a worker.
DispatcherHolds(j) == dpc \in {"getWorker", "handoff"} /\ djob = j

\* C1: in every reachable state, for every worker count and queue length drawn,
\* the number of jobs whose Do has started and not returned is at most the
\* worker count.
C1_BoundedConcurrency == Cardinality(Executing) <= numWorkers

\* All workers of the largest pool execute at once while the burst continues
\* (a further job is submitted and waits).
C1_Witness ==
    /\ numWorkers = MaxWorkers
    /\ Cardinality(Executing) = numWorkers
    /\ \E j \in Jobs : jst[j] # "none" /\ started[j] = 0

\* C2: when Release is never called and every Do returns, every job AddJob has
\* accepted is eventually executed, and Do is invoked exactly once for it, by
\* one worker.
C2_ExecutedExactlyOnce ==
    /\ [](\A j \in Jobs :
            /\ started[j] <= 1
            /\ Cardinality({w \in Workers : wpc[w] = "exec" /\ wjob[w] = j}) <= 1)
    /\ \A j \in Jobs :
            (jst[j] = "accepted") ~> (started[j] = 1 /\ finished[j] = 1)

\* More jobs than workers were accepted and every one has been executed once.
C2_Witness ==
    /\ MaxJobs > numWorkers
    /\ \A j \in Jobs : jst[j] = "accepted" /\ started[j] = 1 /\ finished[j] = 1

\* C3: the job queue never holds more than jobQueueLen jobs; an AddJob that
\* finds the queue full does not return in that state (it returns only from
\* a state with a free slot or, for an unbuffered queue, by handing the job to
\* the dispatcher in its select); a job inside AddJob is nowhere in the pool,
\* and an accepted job is in exactly one place: once in the queue, or with the
\* dispatcher, or started.
C3_Backpressure ==
    /\ [](Len(jobQueue) <= jobQueueLen)
    /\ [](\A j \in Jobs :
            /\ jst[j] = "adding" =>
                   InQueue(j) = 0 /\ ~DispatcherHolds(j) /\ started[j] = 0
            /\ jst[j] = "accepted" =>
                   InQueue(j) + (IF DispatcherHolds(j) THEN 1 ELSE 0) + started[j] = 1)
    /\ [][\A j \in Jobs :
            (jst[j] = "adding" /\ jst'[j] = "accepted") =>
               /\ \/ Len(jobQueue) < jobQueueLen
                  \/ jobQueueLen = 0 /\ dpc = "select"
               /\ InQueue(j)' + (IF DispatcherHolds(j)' THEN 1 ELSE 0) = 1]_vars

\* An AddJob call is blocked on a full queue of the largest length.
C3_Witness ==
    /\ jobQueueLen = MaxQueueLen
    /\ jobQueueLen >= 1
    /\ Len(jobQueue) = jobQueueLen
    /\ \E j \in Jobs : jst[j] = "adding"

\* C4: whenever a call of Release has returned, every worker has received one
\* stop signal, acknowledged it and terminated, no job is executing, and the
\* dispatcher has terminated.
C4_ReleaseDrained ==
    relReturned >= 1 =>
        /\ \A w \in Workers :
               wpc[w] = "done" /\ stopsRecv[w] = 1 /\ stopAcks[w] = 1
        /\ Executing = {}
        /\ dpc = "done"

\* Release has returned after a job had been executed (it was in flight or
\* queued at some point before the drain ended).
C4_Witness ==
    /\ relReturned = 1
    /\ numWorkers = MaxWorkers
    /\ \E j \in Jobs : finished[j] = 1

Processed(d) == hpc[d] \in {"ack", "done"} \/ finished[d] >= 1

\* C6: a delivery is acknowledged to the broker only after the processing of
\* that same delivery has returned.
C6_AckAfterProcessing == \A d \in brokerAcked : Processed(d)

C8_NoJobOnBuildError ==
    \A d \in Jobs : payload[d] = "bad" => jst[d] = "none" /\ started[d] = 0

\* C9: a per-message failure never ends the process: the consume loop and the
\* workers keep running.
C9_FailureIsolated ==
    (\E d \in Jobs : payload[d] = "bad") => proc # "crashed"

\* C10: when the process has exited on a connection-closed notification, no
\* job is executing and no accepted job is left unexecuted.
C10_NoWorkLostAtExit ==
    proc = "exited" =>
        /\ Executing = {}
        /\ \A j \in Jobs : jst[j] = "accepted" => finished[j] = 1

\* Jobs AddJob has returned for and whose Do has not returned.
Unfinished == {j \in Jobs : jst[j] = "accepted" /\ finished[j] = 0}

C13_AdmissionBound == Cardinality(Unfinished) <= jobQueueLen + numWorkers

\* C13 amended: the number of accepted and unfinished jobs is at most
\* jobQueueLen + numWorkers + 1, the one more being the job the dispatcher
\* has received from the queue and holds until a worker is idle.
C13_AdmissionBoundPlusHeld ==
    /\ Cardinality(Unfinished) <= jobQueueLen + numWorkers + 1
    /\ Cardinality(Unfinished) > jobQueueLen + numWorkers =>
           \E j \in Unfinished : DispatcherHolds(j)

\* The queue is full, every worker executes and the dispatcher holds a job.
C13_Witness ==
    /\ Cardinality(Unfinished) = jobQueueLen + numWorkers + 1
    /\ Len(jobQueue) = jobQueueLen
    /\ Cardinality(Executing) = numWorkers

\* Number of times worker w occurs in the idle-worker registry.
InRegistry(w) == Cardinality({i \in 1..Len(workerPool) : workerPool[i] = w})

\* C14: each worker is in the idle-worker registry at most once, and a worker
\* in the registry is waiting in its select, not executing a job.
C14_RegistryIdleOnly ==
    \A w \in Workers :
        /\ InRegistry(w) <= 1
        /\ InRegistry(w) = 1 => wpc[w] = "select"
        /\ wpc[w] = "exec" => InRegistry(w) = 0

\* One worker is registered and idle while the other executes a job.
C14_Witness ==
    \E v, w \in Workers :
        /\ InRegistry(v) = 1
        /\ wpc[w] = "exec"
        /\ wjob[w] \in Executing

\* C19: a stop signal is received only by the worker the dispatcher has just
\* taken from the registry, waiting in its select and absent from the
\* registry; a worker that executes a job receives none, every executing job
\* is with a worker that is executing it, and from some point on no job is
\* started and unfinished (every job started did finish), Release or not.
C19_StopOnlyIdle ==
    /\ [][\A w \in Workers : stopsRecv'[w] > stopsRecv[w] =>
              /\ dpc = "stopSend" /\ dworker = w
              /\ wpc[w] = "select"
              /\ InRegistry(w) = 0
              /\ \A j \in Executing : ~(wjob[w] = j /\ wpc[w] = "exec")]_vars
    /\ [](\A j \in Executing :
              \E w \in Workers : wpc[w] = "exec" /\ wjob[w] = j)
    /\ <>[](Executing = {})

\* Release was called while a job is executing: one worker has been stopped,
\* the job still executes on the other.
C19_Witness ==
    /\ rpc = "wait"
    /\ Executing # {}
    /\ \E w \in Workers : stopsRecv[w] = 1

\* Workers that hold a stop signal they have not acknowledged.
Unacked == {w \in Workers : stopsRecv[w] > stopAcks[w]}

\* C20: the drain is sequential: no worker receives more than one stop
\* signal, at most one signalled worker has not acknowledged, the loop counter
\* is the number of workers that have acknowledged, a signal is sent only when
\* every earlier one is acknowledged, and the dispatcher's own acknowledgment
\* is sent only when all numWorkers workers have received a signal and
\* acknowledged it.
C20_SequentialDrain ==
    /\ [](\A w \in Workers : stopsRecv[w] <= 1 /\ stopAcks[w] <= stopsRecv[w])
    /\ [](Cardinality(Unacked) <= 1)
    /\ [](dpc \in {"stopGet", "stopSend", "stopWait", "stopAck", "done"} =>
              di = Cardinality({w \in Workers : stopAcks[w] = 1}))
    /\ [][\A w \in Workers : stopsRecv'[w] > stopsRecv[w] => Unacked = {}]_vars
    /\ [][relReturned' > relReturned =>
              \A w \in Workers : stopsRecv[w] = 1 /\ stopAcks[w] = 1]_vars
    /\ [](dpc \in {"stopAck", "done"} =>
              Cardinality({w \in Workers : stopAcks[w] = 1}) = numWorkers)

\* The first worker has acknowledged and ended, the second has been taken
\* from the registry and is about to be signalled.
C20_Witness ==
    /\ numWorkers = MaxWorkers
    /\ dpc = "stopSend"
    /\ di = 1
    /\ \E w \in Workers : wpc[w] = "done" /\ stopAcks[w] = 1
    /\ Unacked = {}

C15_WaitAllWaits ==
    cpc = "forever" =>
        \A j \in Jobs : (jst[j] # "none" /\ kind[j] = "http") => finished[j] >= 1

\* The payload is one JSON value and nothing else.
ValidJSON(d) == d.syntax # "junk" /\ ~d.more

\* Every header value of the payload is a string or a number.
StringOrNumberHeaders(d) ==
    \A k \in DOMAIN d.headers : d.headers[k].t \in {"string", "number"}

\* The values a header list holds.
Values(list) == {list[i] : i \in 1..Len(list)}

\* C16: a call of BuildJob that has returned gave an error and no job when
\* the payload is not valid JSON or its method or its uri is empty or missing,
\* and a job and no error when the payload is valid JSON with a method and a
\* uri that are not empty and that NewRequest accepts, and with string or
\* number header values only.
C16_BuildJobErrors ==
    \A c \in Callers :
        bpc[c] = "returned" =>
            /\ (~ValidJSON(bdata[c]) \/ bdata[c].method = "" \/ bdata[c].uri = "") =>
                   bres[c].err /\ bres[c].job = "nil"
            /\ ( /\ ValidJSON(bdata[c])
                 /\ bdata[c].method = "GET"
                 /\ bdata[c].uri = "http://x"
                 /\ StringOrNumberHeaders(bdata[c]) ) =>
                   ~bres[c].err /\ bres[c].job = "http"

\* C17: for a payload whose request is built (it decodes, its method and uri
\* are accepted) and that has a headers object, the call fails and gives no
\* job when some value is neither string nor number, and otherwise the job's
\* request has, for every entry of the object, the entry's text among the
\* values under the canonical form of its key, and no header that is not the
\* canonical form of a key of the object.
C17_HeadersBuilt ==
    \A c \in Callers :
        ( /\ bpc[c] = "returned"
          /\ bdata[c].syntax = "object"
          /\ bdata[c].method = "GET"
          /\ bdata[c].uri = "http://x"
          /\ "headers" \in bdata[c].present ) =>
            IF ~StringOrNumberHeaders(bdata[c])
               THEN bres[c].err /\ bres[c].job = "nil"
               ELSE /\ ~bres[c].err
                    /\ \A k \in DOMAIN bdata[c].headers :
                          /\ CanonicalMIMEHeaderKey(k) \in DOMAIN bres[c].req.Header
                          /\ bdata[c].headers[k].lit \in
                                Values(bres[c].req.Header[CanonicalMIMEHeaderKey(k)])
                    /\ \A ck \in DOMAIN bres[c].req.Header :
                          \E k \in DOMAIN bdata[c].headers : ck = CanonicalMIMEHeaderKey(k)

\* The payload alone decides that BuildJob fails.
Rejected(d) ==
    \/ d.syntax \in {"junk", "scalar"}
    \/ d.method = "" \/ d.uri = ""
    \/ d.method = "G T" \/ d.uri = ":x"
    \/ ~StringOrNumberHeaders(d)

\* C18: whatever scratch message a call of BuildJob got from the pool and
\* whatever the other caller is doing, the call fails exactly when its payload
\* is one that is rejected, and the job it returns has the payload's method
\* and uri, the payload's body or none when the payload has none, and headers
\* that each come from an entry of the payload's headers object under the
\* canonical form of that entry's key, one for every such form, and none when
\* the payload has no headers; and after reset the message is the zero
\* message.
C18_OnlyData ==
    /\ \A msg \in {bgot[c] : c \in Callers} \cup httpMessagePool :
           reset(msg) = ZeroMessage
    /\ \A c \in Callers :
           bpc[c] = "returned" =>
               /\ bres[c].job = (IF Rejected(bdata[c]) THEN "nil" ELSE "http")
               /\ bres[c].err = Rejected(bdata[c])
               /\ ~Rejected(bdata[c]) =>
                     /\ bres[c].req.Method = bdata[c].method
                     /\ bres[c].req.URL = bdata[c].uri
                     /\ bres[c].req.Body.isNil = ("body" \notin bdata[c].present)
                     /\ ~bres[c].req.Body.isNil =>
                            heap[bres[c].req.Body.arr] = bdata[c].body
                     /\ DOMAIN bres[c].req.Header =
                            {CanonicalMIMEHeaderKey(k) : k \in DOMAIN bdata[c].headers}
                     /\ \A ck \in DOMAIN bres[c].req.Header :
                            \E k \in DOMAIN bdata[c].headers :
                                /\ ck = CanonicalMIMEHeaderKey(k)
                                /\ bres[c].req.Header[ck] = <<bdata[c].headers[k].lit>>

\* A call has returned a job for a payload without headers and body although
\* the scratch message it got still carried another message's headers and
\* body, while the other caller is in the middle of a call of its own.
C18_Witness ==
    \E c, o \in Callers :
        /\ c # o
        /\ bpc[c] = "returned"
        /\ bres[c].job = "http"
        /\ bdata[c].present = {"method", "uri"}
        /\ ~bgot[c].Headers.isNil
        /\ ~bgot[c].Body.isNil
        /\ bpc[o] \in {"got", "parsed"}

\* C21: a worker ends only from having received a stop signal, in the step
\* in which it acknowledges it; a worker whose job returns goes on to register
\* again; and while Release has not been called every worker is alive, at its
\* registration, in its select or executing.
C21_WorkersLive ==
    /\ [][\A w \in Workers : (wpc[w] # "done" /\ wpc'[w] = "done") =>
              /\ wpc[w] = "ack"
              /\ stopsRecv[w] = 1
              /\ stopAcks'[w] = stopAcks[w] + 1]_vars
    /\ [][\A w \in Workers : (wpc[w] = "exec" /\ wpc'[w] # "exec") =>
              wpc'[w] = "register"]_vars
    /\ [](relCalls = 0 =>
              \A w \in Workers : wpc[w] \in {"register", "select", "exec"})
    /\ [](DOMAIN wpc = Workers)

\* Without any Release all jobs have been executed and every worker of the
\* largest pool has registered again.
C21_Witness ==
    /\ relCalls = 0
    /\ numWorkers = MaxWorkers
    /\ \A j \in Jobs : finished[j] = 1
    /\ \A w \in Workers : wpc[w] = "select" /\ InRegistry(w) = 1

\* C23: once the dispatcher has ended nothing is taken from the job queue
\* and no job is started, so a job that is in the queue when Release returns
\* stays there unexecuted; the witness is Release returned with jobs queued.
C23_ReleaseLeavesQueue ==
    /\ [][dpc = "done" =>
              /\ started' = started
              /\ Len(jobQueue') >= Len(jobQueue)
              /\ SubSeq(jobQueue', 1, Len(jobQueue)) = jobQueue]_vars
    /\ [](relReturned >= 1 => dpc = "done")
    /\ [](\A j \in Jobs : InQueue(j) = 1 => started[j] = 0)

\* Release was called with a job in the queue and has returned with the job
\* still there, accepted and never started.
C23_Witness ==
    /\ relReturned = 1
    /\ Len(jobQueue) >= 1
    /\ \A i \in 1..Len(jobQueue) :
           jst[jobQueue[i]] = "accepted" /\ started[jobQueue[i]] = 0

\* C24: a job the dispatcher holds leaves it only by being handed to a
\* worker, which starts it; while the dispatcher holds a job it does not take
\* a stop request; and from some point on the dispatcher holds nothing and
\* nothing executes (every job it had taken was handed over and finished).
C24_DequeuedIsExecuted ==
    /\ [][\A j \in Jobs : DispatcherHolds(j) =>
              \/ DispatcherHolds(j)' /\ started'[j] = started[j]
              \/ ~DispatcherHolds(j)' /\ started'[j] = 1 /\ dpc' = "select"]_vars
    /\ [][(\E j \in Jobs : DispatcherHolds(j)) => rpc' = rpc \/ rpc' = "send"]_vars
    /\ <>[](dpc \notin {"getWorker", "handoff"} /\ Executing = {})

\* Release is requested while the dispatcher holds a job for which no worker
\* is idle yet.
C24_Witness ==
    /\ rpc = "send"
    /\ dpc = "getWorker"
    /\ workerPool = <<>>
    /\ \E j \in Jobs : DispatcherHolds(j) /\ jst[j] = "accepted"

\* C25: Release returns at most once: a call made after one has returned
\* stays at its send; after Release has returned the dispatcher is ended, no
\* job is started, and an AddJob that finds the queue full (or unbuffered)
\* does not return.
C25_ReleaseOneShot ==
    /\ [](relReturned <= 1)
    /\ [](relReturned >= 1 => dpc = "done")
    /\ [][relReturned >= 1 =>
              /\ relReturned' = relReturned
              /\ started' = started
              /\ rpc = "send" => rpc' = "send"
              /\ \A j \in Jobs :
                    (jst[j] = "adding" /\ Len(jobQueue) >= jobQueueLen) =>
                        jst'[j] = "adding"]_vars

\* After Release returned, a second Release is at its send, a job was accepted
\* into the queue and the next AddJob is blocked on the full queue.
C25_Witness ==
    /\ relReturned = 1
    /\ relCalls = 2
    /\ rpc = "send"
    /\ Len(jobQueue) = jobQueueLen
    /\ \E j \in Jobs : jst[j] = "adding"
    /\ \E j \in Jobs : InQueue(j) = 1

\* C26: Consume is in its range loop, in WaitAll or at <-forever and never
\* leaves <-forever; pool.Release is never called, and no worker receives a
\* stop signal or ends.
C26_ConsumeNeverReturns ==
    /\ [](cpc \in {"range", "waitall", "forever"})
    /\ [][cpc = "forever" => cpc' = "forever"]_vars
    /\ [](relCalls = 0 /\ rpc = "idle" /\ dpc # "done")
    /\ [](\A w \in Workers : stopsRecv[w] = 0 /\ wpc[w] # "done")

\* Consume blocks at <-forever in a running process, a job executed and the
\* workers still alive.
C26_Witness ==
    /\ cpc = "forever"
    /\ proc = "running"
    /\ \E j \in Jobs : finished[j] = 1
    /\ \A w \in Workers : wpc[w] \in {"register", "select", "exec"}

\* The direct calls of Do that have returned.
Returned == {j \in Jobs : dopc[j] = "returned"}

\* C22: no call of HTTPJob.Do ends the process; a call that has returned has
\* written one entry, to the error sink when the round trip gave a transport
\* error and otherwise, whatever the status, to the info sink with the worker
\* index and the status; each sink holds exactly the entries of the returned
\* calls of its kind; and the step in which a call returns adds one entry.
C22_OneLogEntry ==
    /\ [](proc = "running")
    /\ [](\A j \in Returned :
              /\ finished[j] = 1
              /\ doentry[j].sink = (IF dotrip[j] = "err" THEN "error" ELSE "info")
              /\ dotrip[j] # "err" =>
                     doentry[j].worker = doworker[j] /\ doentry[j].status = dotrip[j])
    /\ [](\A j \in Jobs \ Returned : doentry[j] = NoEntry)
    /\ [](errLog = Cardinality({j \in Returned : dotrip[j] = "err"}))
    /\ [](infLog = Cardinality({j \in Returned : dotrip[j] # "err"}))
    /\ [][\A j \in Jobs : finished'[j] > finished[j] =>
              infLog' + errLog' = infLog + errLog + 1]_vars

\* Calls have returned after a transport error, after a 500 response and
\* after a 200 response.
C22_Witness ==
    /\ \E j \in Returned : dotrip[j] = "err" /\ doentry[j].sink = "error"
    /\ \E j \in Returned : dotrip[j] = "500" /\ doentry[j].sink = "info"
    /\ \E j \in Returned : dotrip[j] = "200" /\ doentry[j].sink = "info"

\* C27: as long as a caller holds the job its call of BuildJob returned, the
\* bytes the job's request body reads are those of its own payload's body
\* (and it has no body when the payload has none), its headers are those of
\* its own payload, and no step of any call of BuildJob changes the request
\* or the bytes in the array its body reads.
C27_JobKeepsPayload ==
    /\ [](\A c \in Callers :
              bres[c].job = "http" =>
                  /\ bres[c].req.Body.isNil = ("body" \notin bdata[c].present)
                  /\ ~bres[c].req.Body.isNil =>
                         heap[bres[c].req.Body.arr] = bdata[c].body
                  /\ DOMAIN bres[c].req.Header =
                         {CanonicalMIMEHeaderKey(k) : k \in DOMAIN bdata[c].headers}
                  /\ \A ck \in DOMAIN bres[c].req.Header :
                         \E k \in DOMAIN bdata[c].headers :
                             /\ ck = CanonicalMIMEHeaderKey(k)
                             /\ bres[c].req.Header[ck] = <<bdata[c].headers[k].lit>>)
    /\ [][\A c \in Callers :
              (bres[c].job = "http" /\ bpc'[c] = "returned") =>
                  /\ bres'[c] = bres[c]
                  /\ bdata'[c] = bdata[c]
                  /\ ~bres[c].req.Body.isNil =>
                         heap'[bres[c].req.Body.arr] = heap[bres[c].req.Body.arr]]_vars

\* A caller holds a job with body "b" while the other caller's later call,
\* which got the scratch message whose body was this job's array, has
\* returned a job with body "c".
C27_Witness ==
    \E c, o \in Callers :
        /\ c # o
        /\ bres[c].job = "http"
        /\ ~bres[c].req.Body.isNil
        /\ bdata[c].body = "b"
        /\ bpc[o] = "returned"
        /\ bres[o].job = "http"
        /\ bdata[o].body = "c"
        /\ ~bgot[o].Body.isNil
        /\ bgot[o].Body.arr = bres[c].req.Body.arr
        /\ bres[o].req.Body.arr # bres[c].req.Body.arr

=============================================================================
